---- MODULE Spec2Model ----
(***************************************************************************)
(* Model of the petition search engine (backend/app/search_engine.py) and  *)
(* of the /api/search endpoint that calls it (backend/app/main.py).        *)
(*                                                                         *)
(* Text (titles, queries, signature fields of the source file) is a        *)
(* sequence of one-character strings, so that splitting, stripping,        *)
(* cleaning and integer parsing are computed character by character as the *)
(* code does.  The element "POUND" stands for the single character U+00A3. *)
(* An Optional[...] argument is the empty set (None) or a singleton.       *)
(***************************************************************************)
EXTENDS Integers, Sequences, FiniteSets, TLC

\* ------------------------------------------------------------------ bounds
\* Largest top_k / limit a caller passes (the smallest is -1).
MaxTopK == 2
\* Resolution of a similarity score: Scale stands for the cosine 1.0.
Scale == 100

\* ------------------------------------------------------ program constants
\* _clean_text: titles longer than this are cut and "..." is appended.
TitleMaxLen == 500
\* SearchRequest.limit: ge=1, le=50.
LimitMin == 1
LimitMax == 50
\* SearchRequest.query: min_length=1, max_length=500.
QueryMinLen == 1
QueryMaxLen == 500

\* --------------------------------------------------------------- Optional
None == {}
Some(v) == {v}
Value(o) == CHOOSE v \in o : TRUE

\* ------------------------------------------------------------------- text
Whitespace == {" ", "\t"}
Digits == <<"0", "1", "2", "3", "4", "5", "6", "7", "8", "9">>
Letters ==
    {"a","b","c","d","e","f","g","h","i","j","k","l","m","n","o","p","q","r",
     "s","t","u","v","w","x","y","z","A","B","C","D","E","F","G","H","I","J",
     "K","L","M","N","O","P","Q","R","S","T","U","V","W","X","Y","Z"}
\* The characters the regular expression class \w matches.
WordChars == Letters \cup {Digits[i] : i \in 1..10} \cup {"_"}
\* The characters kept by re.sub(r'[^\w\s.,!?-]', '', text).
AllowedChars == WordChars \cup Whitespace \cup {".", ",", "!", "?", "-"}

\* Number of occurrences of the character c in s.
Count(s, c) == Cardinality({i \in 1..Len(s) : s[i] = c})

\* str.split(): the maximal runs of non-whitespace characters, in order.  The
\* k-th run goes from the k-th position that starts a run to the k-th that
\* ends one.
Split(s) ==
    LET n == Len(s)
        positions == [i \in 1..n |-> i]
        starts == SelectSeq(positions,
                      LAMBDA i : s[i] \notin Whitespace /\ (i = 1 \/ s[i - 1] \in Whitespace))
        ends == SelectSeq(positions,
                    LAMBDA j : s[j] \notin Whitespace /\ (j = n \/ s[j + 1] \in Whitespace))
    IN  [k \in 1..Len(starts) |-> SubSeq(s, starts[k], ends[k])]

RECURSIVE Join(_)
\* ' '.join(words)
Join(ws) ==
    IF ws = <<>> THEN <<>>
    ELSE IF Len(ws) = 1 THEN ws[1]
    ELSE ws[1] \o <<" ">> \o Join(Tail(ws))

RECURSIVE LStrip(_)
LStrip(s) ==
    IF s # <<>> /\ Head(s) \in Whitespace THEN LStrip(Tail(s)) ELSE s

RECURSIVE RStrip(_)
RStrip(s) ==
    IF s # <<>> /\ s[Len(s)] \in Whitespace
    THEN RStrip(SubSeq(s, 1, Len(s) - 1)) ELSE s

\* str.strip()
Strip(s) == RStrip(LStrip(s))

\* The characters of s that belong to keep, in order.
Filter(s, keep) == SelectSeq(s, LAMBDA c : c \in keep)

\* PetitionSearchEngine._clean_text
_clean_text(text) ==
    LET collapsed == Join(Split(text))
        kept == Filter(collapsed, AllowedChars)
    IN  IF Len(kept) > TitleMaxLen
        THEN SubSeq(kept, 1, TitleMaxLen) \o <<".", ".", ".">>
        ELSE kept

\* str.lower() on the state values that occur.
Lower(s) ==
    CASE s = "OPEN" -> "open"
      [] s = "Open" -> "open"
      [] s = "CLOSED" -> "closed"
      [] s = "Closed" -> "closed"
      [] s = "Rejected" -> "rejected"
      [] OTHER -> s

UpperCase == <<"A","B","C","D","E","F","G","H","I","J","K","L","M","N","O","P","Q",
               "R","S","T","U","V","W","X","Y","Z">>
LowerCase == <<"a","b","c","d","e","f","g","h","i","j","k","l","m","n","o","p","q",
               "r","s","t","u","v","w","x","y","z">>

\* The lower-case letter of every upper-case letter.
LowerOf ==
    [c \in {UpperCase[k] : k \in 1..26} |->
        LowerCase[CHOOSE k \in 1..26 : UpperCase[k] = c]]

\* str.lower() on one character.
LowerChar(c) == IF c \in DOMAIN LowerOf THEN LowerOf[c] ELSE c

\* str.lower() on a text.
LowerText(s) == [i \in 1..Len(s) |-> LowerChar(s[i])]

DigitValue(c) == CHOOSE d \in 0..9 : Digits[d + 1] = c

RECURSIVE DigitsValue(_, _)
DigitsValue(s, acc) ==
    IF s = <<>> THEN acc ELSE DigitsValue(Tail(s), 10 * acc + DigitValue(Head(s)))

AllDigits(s) == s # <<>> /\ \A i \in 1..Len(s) : \E d \in 1..10 : Digits[d] = s[i]

\* int(s) for a decimal numeral with an optional minus sign: [ok |-> FALSE]
\* stands for ValueError.
ParseInt(s) ==
    IF AllDigits(s) THEN [ok |-> TRUE, value |-> DigitsValue(s, 0)]
    ELSE IF s # <<>> /\ Head(s) = "-" /\ AllDigits(Tail(s))
         THEN [ok |-> TRUE, value |-> 0 - DigitsValue(Tail(s), 0)]
    ELSE [ok |-> FALSE, value |-> 0]

\* int(sig_str.replace(',', ''))
ParseSignatures(sig_str) ==
    LET s == Filter(sig_str, {sig_str[i] : i \in 1..Len(sig_str)} \ {","})
    IN  ParseInt(s)

RECURSIVE NatToText(_)
NatToText(n) ==
    IF n < 10 THEN <<Digits[n + 1]>>
    ELSE NatToText(n \div 10) \o <<Digits[(n % 10) + 1]>>

\* str(n), as csv.DictWriter writes an integer field.
IntToText(n) == IF n < 0 THEN <<"-">> \o NatToText(0 - n) ELSE NatToText(n)

\* ---------------------------------------------------------------- encoder
\* The encoder is an external, deterministic map from a text to a vector.
\* Here the vector counts the letters a and b of the text.
Encode(text) == <<Count(text, "a"), Count(text, "b")>>

\* model.encode(texts): one row per text, in the order given.
EncodeBatch(texts) == [i \in 1..Len(texts) |-> Encode(texts[i])]

RECURSIVE ISqrtIn(_, _, _)
ISqrtIn(x, lo, hi) ==
    IF lo >= hi THEN lo
    ELSE LET mid == (lo + hi + 1) \div 2
         IN  IF mid * mid <= x THEN ISqrtIn(x, mid, hi) ELSE ISqrtIn(x, lo, mid - 1)

\* sklearn cosine_similarity of two vectors, in fixed point (Scale is 1.0);
\* a zero vector has similarity 0 to everything.
CosineSimilarity(q, v) ==
    LET dot == q[1] * v[1] + q[2] * v[2]
        nq == q[1] * q[1] + q[2] * q[2]
        nv == v[1] * v[1] + v[2] * v[2]
        mag == IF nq * nv = 0 THEN 0
               ELSE ISqrtIn((dot * dot * Scale * Scale) \div (nq * nv), 0, Scale)
    IN  IF dot < 0 THEN 0 - mag ELSE mag

\* ------------------------------------------------------------ sample data
SampleTitle1 ==
    <<
        "I","n","c","r","e","a","s","e"," ","f","u","n","d","i","n","g"," ",
        "f","o","r"," ","r","e","n","e","w","a","b","l","e"," ","e","n","e",
        "r","g","y"," ","r","e","s","e","a","r","c","h"," ","a","n","d"," ",
        "d","e","v","e","l","o","p","m","e","n","t"
    >>

SampleTitle2 ==
    <<
        "B","a","n"," ","s","i","n","g","l","e","-","u","s","e"," ","p","l",
        "a","s","t","i","c","s"," ","i","n"," ","a","l","l"," ","U","K"," ",
        "s","u","p","e","r","m","a","r","k","e","t","s"," ","b","y"," ","2",
        "0","2","6"
    >>

SampleTitle3 ==
    <<
        "I","m","p","r","o","v","e"," ","m","e","n","t","a","l"," ","h","e",
        "a","l","t","h"," ","s","u","p","p","o","r","t"," ","i","n"," ","s",
        "c","h","o","o","l","s"
    >>

SampleTitle4 ==
    <<
        "M","a","k","e"," ","c","l","i","m","a","t","e"," ","c","h","a","n",
        "g","e"," ","e","d","u","c","a","t","i","o","n"," ","m","a","n","d",
        "a","t","o","r","y"," ","i","n"," ","s","c","h","o","o","l","s"
    >>

SampleTitle5 ==
    <<
        "F","u","n","d"," ","r","e","c","o","n","s","t","r","u","c","t","i",
        "o","n"," ","s","u","r","g","e","r","y"," ","a","n","d"," ","p","s",
        "y","c","h","o","s","e","x","u","a","l"," ","t","h","e","r","a","p",
        "y"," ","f","o","r"," ","F","G","M"," ","s","u","r","v","i","v","o",
        "r","s"
    >>

SampleTitle6 ==
    <<
        "R","e","d","u","c","e"," ","u","n","i","v","e","r","s","i","t","y",
        " ","t","u","i","t","i","o","n"," ","f","e","e","s"," ","t","o"," ",
        "POUND","3","0","0","0"," ","p","e","r"," ","y","e","a","r"
    >>

SampleTitle7 ==
    <<
        "P","r","o","t","e","c","t"," ","g","r","e","e","n"," ","b","e","l",
        "t"," ","l","a","n","d"," ","f","r","o","m"," ","h","o","u","s","i",
        "n","g"," ","d","e","v","e","l","o","p","m","e","n","t"
    >>

SampleTitle8 ==
    <<
        "I","n","c","r","e","a","s","e"," ","N","H","S"," ","f","u","n","d",
        "i","n","g"," ","b","y"," ","1","0","%"," ","a","n","n","u","a","l",
        "l","y"
    >>

SampleTitle9 ==
    <<
        "B","a","n"," ","t","h","e"," ","s","a","l","e"," ","o","f"," ","f",
        "i","r","e","w","o","r","k","s"," ","t","o"," ","t","h","e"," ","p",
        "u","b","l","i","c"
    >>

SampleTitle10 ==
    <<
        "I","m","p","l","e","m","e","n","t"," ","a"," ","f","o","u","r","-",
        "d","a","y"," ","w","o","r","k","i","n","g"," ","w","e","e","k"," ",
        "p","i","l","o","t"," ","s","c","h","e","m","e"
    >>

sample_petitions ==
    <<
      [title |-> SampleTitle1, url |-> "https://petition.parliament.uk/petitions/700001",
       state |-> "open", signatures |-> 45678],
      [title |-> SampleTitle2, url |-> "https://petition.parliament.uk/petitions/700002",
       state |-> "open", signatures |-> 123456],
      [title |-> SampleTitle3, url |-> "https://petition.parliament.uk/petitions/700003",
       state |-> "open", signatures |-> 87234],
      [title |-> SampleTitle4, url |-> "https://petition.parliament.uk/petitions/700004",
       state |-> "closed", signatures |-> 234567],
      [title |-> SampleTitle5, url |-> "https://petition.parliament.uk/petitions/700005",
       state |-> "closed", signatures |-> 939],
      [title |-> SampleTitle6, url |-> "https://petition.parliament.uk/petitions/700006",
       state |-> "open", signatures |-> 567890],
      [title |-> SampleTitle7, url |-> "https://petition.parliament.uk/petitions/700007",
       state |-> "open", signatures |-> 34567],
      [title |-> SampleTitle8, url |-> "https://petition.parliament.uk/petitions/700008",
       state |-> "closed", signatures |-> 456789],
      [title |-> SampleTitle9, url |-> "https://petition.parliament.uk/petitions/700009",
       state |-> "open", signatures |-> 23456],
      [title |-> SampleTitle10, url |-> "https://petition.parliament.uk/petitions/700010",
       state |-> "open", signatures |-> 98765]
    >>

\* ------------------------------------------------------------------ files
NoFile == [kind |-> "absent"]
\* A source file in header form: the header line title,url,state,signatures
\* (no 'http' in it, so has_header is true) and one record of raw fields per row.
CsvFile(rows) == [kind |-> "csv", rows |-> rows]
\* A source file without a header line: its first line holds 'http', so
\* has_header is false.  A line is the title text, the URL and the fields that
\* follow the URL, separated by whitespace; state and signatures are None when
\* the line ends before them.
LinesFile(lines) == [kind |-> "lines", rows |-> lines]
CorruptCache == [kind |-> "corrupt"]
\* pickle of {'petitions': ..., 'embeddings': ...}
CacheRecord(pets, emb) == [kind |-> "record", petitions |-> pets, embeddings |-> emb]
\* pickle of a bare embedding matrix, as an older release wrote it
LegacyCache(emb) == [kind |-> "legacy", embeddings |-> emb]

\* csv.DictWriter over sample_petitions (lines 232-235).
SampleFile ==
    CsvFile([i \in 1..Len(sample_petitions) |->
        [title |-> sample_petitions[i].title,
         url |-> sample_petitions[i].url,
         state |-> sample_petitions[i].state,
         signatures |-> IntToText(sample_petitions[i].signatures)]])

\* PetitionSearchEngine._create_sample_data: the petitions become the sample
\* list and the sample is written to csv_path unless the write fails.
_create_sample_data(csv, writable) ==
    [petitions |-> sample_petitions,
     csv |-> IF writable THEN SampleFile ELSE csv]

\* One row of the csv.DictReader loop (lines 88-103).
ParseRow(row) ==
    LET title == row.title
        url == row.url
        state == IF row.state = "" THEN "unknown" ELSE row.state
        sig_str == IF row.signatures = <<>> THEN <<"0">> ELSE row.signatures
        sig == ParseSignatures(sig_str)
    IN  [ok |-> sig.ok,
         petition |-> [title |-> _clean_text(title), url |-> url,
                       state |-> Lower(state), signatures |-> sig.value]]

RECURSIVE ParseRowsSkipBad(_, _)
\* Mutant: a row whose signature count does not parse is skipped.
ParseRowsSkipBad(rows, pets) ==
    IF rows = <<>> THEN [ok |-> TRUE, petitions |-> pets]
    ELSE LET r == ParseRow(Head(rows))
         IN  ParseRowsSkipBad(Tail(rows), IF r.ok THEN Append(pets, r.petition) ELSE pets)

RECURSIVE ParseRows(_, _)
\* Appends the rows to pets until one raises.
ParseRows(rows, pets) ==
    IF rows = <<>> THEN [ok |-> TRUE, petitions |-> pets]
    ELSE LET r == ParseRow(Head(rows))
         IN  IF r.ok THEN ParseRows(Tail(rows), Append(pets, r.petition))
             ELSE [ok |-> FALSE, petitions |-> pets]

\* One line of the header-less loop (lines 107-132).  skip: the line has
\* fewer than four whitespace-separated parts and adds no petition.
ParseLine(line) ==
    LET after_url == Cardinality(line.state) + Cardinality(line.signatures)
        parts == Len(Split(line.title)) + 1 + after_url
        title == Strip(line.title)
        state == IF after_url > 0 THEN Value(line.state) ELSE "unknown"
        sig == IF after_url > 1 THEN ParseInt(Value(line.signatures))
               ELSE [ok |-> TRUE, value |-> 0]
    IN  [skip |-> parts < 4,
         ok |-> parts < 4 \/ sig.ok,
         petition |-> [title |-> _clean_text(title), url |-> line.url,
                       state |-> Lower(state), signatures |-> sig.value]]

RECURSIVE ParseLines(_, _)
\* Appends the lines to pets until one raises.
ParseLines(lines, pets) ==
    IF lines = <<>> THEN [ok |-> TRUE, petitions |-> pets]
    ELSE LET r == ParseLine(Head(lines))
         IN  IF r.skip THEN ParseLines(Tail(lines), pets)
             ELSE IF r.ok THEN ParseLines(Tail(lines), Append(pets, r.petition))
             ELSE [ok |-> FALSE, petitions |-> pets]

\* The try block of _load_data (lines 77-134): open() raises on a missing file.
ReadSource(csv, pets) ==
    IF csv.kind = "absent" THEN [ok |-> FALSE, petitions |-> pets]
    ELSE IF csv.kind = "lines" THEN ParseLines(csv.rows, pets)
    ELSE ParseRows(csv.rows, pets)

\* PetitionSearchEngine._load_data, entered with self.petitions = [].
_load_data(csv, writable) ==
    LET first == IF csv.kind = "absent" THEN _create_sample_data(csv, writable)
                 ELSE [petitions |-> <<>>, csv |-> csv]
        read == ReadSource(first.csv, first.petitions)
    IN  IF read.ok THEN [petitions |-> read.petitions, csv |-> first.csv]
        ELSE _create_sample_data(first.csv, writable)

Titles(pets) == [i \in 1..Len(pets) |-> pets[i].title]

\* Mutant: the cache is adopted without comparing the petition counts.
CacheHitNoCount(cache, pets) == cache.kind = "record"

\* Mutant: the cache is never adopted.
CacheHitNever(cache, pets) == FALSE

\* Lines 250-264: whether the cache file is adopted.
CacheHit(cache, pets) ==
    /\ cache.kind = "record"
    /\ Len(cache.petitions) = Len(pets)

\* Lines 281-290: what the cache file holds after the attempt to write it.
WriteCache(cache, pets, emb, cacheWritable) ==
    IF cacheWritable THEN CacheRecord(pets, emb) ELSE cache

\* PetitionSearchEngine._prepare_embeddings.  encOk: the batch call of the
\* encoder returns; cacheWritable: the cache file can be written.
_prepare_embeddings(pets, cache, encOk, cacheWritable) ==
    IF CacheHit(cache, pets)
    THEN [raised |-> FALSE, embeddings |-> cache.embeddings, embeddings_loaded |-> TRUE,
          cache |-> cache, calls |-> 0]
    ELSE IF ~encOk
    THEN [raised |-> TRUE, embeddings |-> <<>>, embeddings_loaded |-> FALSE,
          cache |-> cache, calls |-> 1]
    ELSE LET emb == EncodeBatch(Titles(pets))
         IN  [raised |-> FALSE, embeddings |-> emb, embeddings_loaded |-> TRUE,
              cache |-> WriteCache(cache, pets, emb, cacheWritable),
              calls |-> 1]

\* ------------------------------------------------------------------ state
VARIABLES
    csvFile,            \* the file at csv_path
    cacheFile,          \* the file at embeddings_cache_path
    pc,                 \* "down": no process; "up": main.py has been imported
    search_engine,      \* "None" or "engine" (main.py lines 51-62)
    petitions,          \* PetitionSearchEngine.petitions
    embeddings,         \* PetitionSearchEngine.embeddings
    embeddings_loaded,  \* PetitionSearchEngine.embeddings_loaded
    boot,               \* what the last initialisation saw and did
    last                \* the last call made and what it returned

vars == <<csvFile, cacheFile, pc, search_engine, petitions, embeddings,
          embeddings_loaded, boot, last>>
engine == <<search_engine, petitions, embeddings, embeddings_loaded>>
files == <<csvFile, cacheFile>>

NoBoot == [done |-> FALSE]
NoCall == [op |-> "none"]

\* Rows the environment puts into a source file.
RowA ==
    [title |-> <<"a">>, url |-> "http://p/1", state |-> "open",
     signatures |-> <<"5">>]
RowB ==
    [title |-> <<"b", " ", " ", "a">>, url |-> "http://p/2", state |-> "Closed",
     signatures |-> <<"1", ",", "0", "0", "0">>]
RowC ==
    [title |-> <<"a", "b">>, url |-> "http://p/3", state |-> "OPEN",
     signatures |-> <<"-", "5">>]
RowBad ==
    [title |-> <<"b">>, url |-> "http://p/4", state |-> "",
     signatures |-> <<"x">>]

\* Lines the environment puts into a header-less source file.
LineA ==
    [title |-> <<"a", " ", "b", " ">>, url |-> "http://p/5",
     state |-> Some("Rejected"), signatures |-> Some(<<"7">>)]
LineShort ==
    [title |-> <<"b", " ">>, url |-> "http://p/6",
     state |-> Some("open"), signatures |-> None]
LineC ==
    [title |-> <<"a", " ">>, url |-> "http://p/7",
     state |-> Some("OPEN"), signatures |-> Some(<<"7">>)]
LineD ==
    [title |-> <<"B", " ", "b", " ">>, url |-> "http://p/8",
     state |-> Some("open"), signatures |-> None]
LineBad ==
    [title |-> <<"b", " ">>, url |-> "http://p/9",
     state |-> Some("Closed"), signatures |-> Some(<<"1", ",", "0", "0", "0">>)]

\* The source files the environment provides: none, a header alone, rows
\* that parse, and a file whose second row has an unparsable signature count.
SourceFiles ==
    { NoFile, CsvFile(<<>>), CsvFile(<<RowB, RowA>>), CsvFile(<<RowB, RowC>>),
      CsvFile(<<RowA, RowBad>>) }

\* The header-less source files the environment provides: one whose lines
\* parse (the second is too short to count) and one whose second line has a
\* signature count that does not parse.
HeaderlessFiles ==
    { LinesFile(<<LineA, LineShort, LineC, LineD>>), LinesFile(<<LineA, LineBad>>) }

Init ==
    /\ csvFile = NoFile
    /\ cacheFile = NoFile
    /\ pc = "down"
    /\ search_engine = "None"
    /\ petitions = <<>>
    /\ embeddings = <<>>
    /\ embeddings_loaded = FALSE
    /\ boot = NoBoot
    /\ last = NoCall

\* The environment replaces or removes the source file between two runs.
EnvWriteSource ==
    /\ pc = "down"
    /\ \E f \in SourceFiles : csvFile' = f
    /\ UNCHANGED <<cacheFile, pc, engine, boot, last>>

\* The environment puts a header-less source file in place between two runs.
EnvWriteHeaderless ==
    /\ pc = "down"
    /\ \E f \in HeaderlessFiles : csvFile' = f
    /\ UNCHANGED <<cacheFile, pc, engine, boot, last>>

\* The environment removes or damages the cache file between two runs.
EnvDamageCache ==
    /\ pc = "down"
    /\ cacheFile' \in {NoFile, CorruptCache}
    /\ UNCHANGED <<csvFile, pc, engine, boot, last>>

\* The cache file is replaced by one an older release wrote: the bare matrix.
EnvLegacyCache ==
    /\ pc = "down"
    /\ cacheFile.kind = "record"
    /\ cacheFile' = LegacyCache(cacheFile.embeddings)
    /\ UNCHANGED <<csvFile, pc, engine, boot, last>>

\* What an initialisation saw: the files before it, whether the cached
\* snapshot equals the petitions just loaded, and the encoder calls it made.
BootRecord(csv, cache, pets, prep) ==
    [done |-> TRUE,
     csvKind |-> csv.kind,
     cacheKind |-> cache.kind,
     countEqual |-> cache.kind = "record" /\ Len(cache.petitions) = Len(pets),
     sameSnapshot |-> cache.kind = "record" /\ cache.petitions = pets,
     cached |-> IF cache.kind \in {"record", "legacy"} THEN cache.embeddings ELSE <<>>,
     modelOk |-> TRUE,
     raised |-> prep.raised,
     calls |-> prep.calls]

\* Import of main.py (lines 51-62) when SentenceTransformer(model_name)
\* raises: __init__ re-raises before any file is read, search_engine = None.
StartupModelFails ==
    /\ pc = "down"
    /\ pc' = "up"
    /\ search_engine' = "None"
    /\ boot' = [done |-> TRUE, csvKind |-> csvFile.kind, cacheKind |-> cacheFile.kind,
                countEqual |-> FALSE, sameSnapshot |-> FALSE, cached |-> <<>>,
                modelOk |-> FALSE, raised |-> FALSE, calls |-> 0]
    /\ last' = NoCall
    /\ UNCHANGED <<files, petitions, embeddings, embeddings_loaded>>

\* Import of main.py (lines 51-62) when the model loads: _load_data, then
\* _prepare_embeddings; an exception of the encoder leaves search_engine = None.
Startup ==
    /\ pc = "down"
    /\ \E writable \in BOOLEAN :
        LET loaded == _load_data(csvFile, writable)
        IN  \E encOk \in BOOLEAN, cacheWritable \in BOOLEAN :
            LET prep == _prepare_embeddings(loaded.petitions, cacheFile, encOk,
                                            cacheWritable)
            IN  /\ csvFile' = loaded.csv
                /\ cacheFile' = prep.cache
                /\ search_engine' = IF prep.raised THEN "None" ELSE "engine"
                /\ petitions' = IF prep.raised THEN <<>> ELSE loaded.petitions
                /\ embeddings' = prep.embeddings
                /\ embeddings_loaded' = prep.embeddings_loaded
                /\ boot' = BootRecord(csvFile, cacheFile, loaded.petitions, prep)
    /\ pc' = "up"
    /\ last' = NoCall

\* The process ends; the files stay.
Shutdown ==
    /\ pc = "up"
    /\ pc' = "down"
    /\ search_engine' = "None"
    /\ petitions' = <<>>
    /\ embeddings' = <<>>
    /\ embeddings_loaded' = FALSE
    /\ boot' = NoBoot
    /\ last' = NoCall
    /\ UNCHANGED files

\* PetitionSearchEngine.is_ready
is_ready == embeddings_loaded /\ Len(petitions) > 0

\* -------------------------------------------------------------- search
\* Python truth value of an Optional[str] / Optional[int] argument.
TruthyStr(o) == o # None /\ Value(o) # ""
TruthyInt(o) == o # None /\ Value(o) # 0

\* Mutant: the query is not stripped before the test.
QueryIsEmptyNoStrip(query) == query = <<>>

\* Line 316: not query or not query.strip()
QueryIsEmpty(query) == query = <<>> \/ Strip(query) = <<>>

\* Lines 338-341: the petition is kept (neither continue is taken).
PassesFilters(p, state_filter, min_signatures) ==
    /\ ~(TruthyStr(state_filter) /\ p.state # Lower(Value(state_filter)))
    /\ ~(TruthyInt(min_signatures) /\ p.signatures < Value(min_signatures))

\* Mutant: the result is the stored petition itself, not a copy of it.
StoredAfterAlias(p, result) == result

\* petition.copy() (lines 335 and 383): the keys set afterwards go to the
\* copy, so the stored petition p is what it was whatever the result becomes.
StoredAfterCopy(p, result) == p

\* self.petitions after the loop made one result of each petition listed in
\* made (a sequence of records with the petition's index idx and the result rec).
StoredAfter(pets, made) ==
    [i \in 1..Len(pets) |->
        IF \E k \in 1..Len(made) : made[k].idx = i
        THEN StoredAfterCopy(pets[i], made[CHOOSE k \in 1..Len(made) : made[k].idx = i].rec)
        ELSE pets[i]]

\* Lines 335-347 for one row idx of the similarity vector: the copy of the
\* petition with its score.  idx and sim are kept beside the copy to state
\* properties of the order; the caller sees only rec.
Candidate(pets, idx, sim, include_similarity_score) ==
    [idx |-> idx, sim |-> sim,
     rec |-> [title |-> pets[idx].title, url |-> pets[idx].url,
              state |-> pets[idx].state, signatures |-> pets[idx].signatures,
              similarity_score |-> IF include_similarity_score THEN Some(sim) ELSE None,
              rank |-> None]]

RECURSIVE Collect(_, _, _, _, _, _)
\* The loop of lines 334-347 from row idx on.
Collect(pets, sims, idx, state_filter, min_signatures, include_similarity_score) ==
    IF idx > Len(sims) THEN <<>>
    ELSE (IF PassesFilters(pets[idx], state_filter, min_signatures)
          THEN <<Candidate(pets, idx, sims[idx], include_similarity_score)>>
          ELSE <<>>)
         \o Collect(pets, sims, idx + 1, state_filter, min_signatures,
                    include_similarity_score)

\* Line 350: key=lambda x: x.get('similarity_score', 0)
SortKey(c) == IF c.rec.similarity_score = None THEN 0 ELSE Value(c.rec.similarity_score)

\* Where a stable descending sort puts c in an already sorted s: after every
\* element whose key is at least its own.
InsertDesc(s, c) ==
    LET n == Cardinality({i \in 1..Len(s) : SortKey(s[i]) >= SortKey(c)})
    IN  SubSeq(s, 1, n) \o <<c>> \o SubSeq(s, n + 1, Len(s))

RECURSIVE SortDesc(_)
\* Line 350: list.sort(key=..., reverse=True), which is stable.
SortDesc(s) ==
    IF s = <<>> THEN <<>>
    ELSE InsertDesc(SortDesc(SubSeq(s, 1, Len(s) - 1)), s[Len(s)])

\* Mutant: the slice keeps one element more.
SliceToOneMore(s, top_k) ==
    SubSeq(s, 1, IF top_k + 1 < Len(s) THEN top_k + 1 ELSE Len(s))

\* results[:top_k] for an integer top_k of either sign.
SliceTo(s, top_k) ==
    IF top_k >= 0 THEN SubSeq(s, 1, IF top_k < Len(s) THEN top_k ELSE Len(s))
    ELSE SubSeq(s, 1, IF Len(s) + top_k > 0 THEN Len(s) + top_k ELSE 0)

\* Mutant: the rank is the petition's position in the dataset.
AddRankingByDatasetIndex(results, top_k) ==
    [i \in 1..Len(results) |-> [results[i] EXCEPT !.rec.rank = Some(results[i].idx)]]

\* Lines 353-354: rank = i + 1 for the i-th element of results[:top_k].
AddRanking(results, top_k) ==
    [i \in 1..Len(results) |->
        IF i <= Len(SliceTo(results, top_k))
        THEN [results[i] EXCEPT !.rec.rank = Some(i)]
        ELSE results[i]]

\* The call raises exc after encCalls calls of the encoder; stored is empty
\* because no statement that touches self.petitions has run.
Raise(exc, encCalls) ==
    [outcome |-> exc, results |-> <<>>, picked |-> <<>>, encCalls |-> encCalls,
     stored |-> <<>>]

\* PetitionSearchEngine.search.  encOk: model.encode([query]) returns.
\* cosine_similarity raises ValueError on a matrix without rows.
search(pets, emb, loaded, query, top_k, state_filter, min_signatures, include, encOk) ==
    IF QueryIsEmpty(query) THEN Raise("ValueError", 0)
    ELSE IF ~loaded THEN Raise("RuntimeError", 0)
    ELSE IF ~encOk THEN Raise("EncoderError", 1)
    ELSE IF Len(emb) = 0 THEN Raise("ValueError", 1)
    ELSE IF Len(emb) > Len(pets) THEN Raise("IndexError", 1)
    ELSE LET query_embedding == Encode(query)
             sims == [i \in 1..Len(emb) |-> CosineSimilarity(query_embedding, emb[i])]
             found == Collect(pets, sims, 1, state_filter, min_signatures, include)
             ranked == AddRanking(SortDesc(found), top_k)
             top == SliceTo(ranked, top_k)
         IN  [outcome |-> "ok",
              results |-> [i \in 1..Len(top) |-> top[i].rec],
              picked |-> [i \in 1..Len(top) |-> [idx |-> top[i].idx, sim |-> top[i].sim]],
              encCalls |-> 1,
              stored |-> StoredAfter(pets, ranked)]

Queries == { <<>>, <<" ">>, <<"a">> }
TopKs == (0 - 1) .. MaxTopK
StateFilters == { None, Some(""), Some("OPEN") }
MinSignatures == { None, Some(0), Some(6) }

\* A caller of the engine calls search.
Search ==
    /\ pc = "up"
    /\ search_engine = "engine"
    /\ last = NoCall
    /\ \E query \in Queries, top_k \in TopKs, state_filter \in StateFilters,
          min_signatures \in MinSignatures, include \in BOOLEAN, encOk \in BOOLEAN :
        LET r == search(petitions, embeddings, embeddings_loaded, query, top_k,
                        state_filter, min_signatures, include, encOk)
        IN  /\ last' = [op |-> "search", query |-> query, top_k |-> top_k,
                         state_filter |-> state_filter, min_signatures |-> min_signatures,
                         include |-> include, outcome |-> r.outcome, results |-> r.results,
                         picked |-> r.picked, encCalls |-> r.encCalls]
            /\ petitions' = IF r.outcome = "ok" THEN r.stored ELSE petitions
    /\ UNCHANGED <<files, pc, search_engine, embeddings, embeddings_loaded, boot>>

\* ------------------------------------------------ keyword_fallback_search
\* set(text.lower().split()): the maximal runs of non-whitespace characters
\* of the lower-cased text.
WordSet(text) ==
    LET s == LowerText(text)
        n == Len(s)
        starts == {i \in 1..n : s[i] \notin Whitespace /\ (i = 1 \/ s[i - 1] \in Whitespace)}
        ends == {j \in 1..n : s[j] \notin Whitespace /\ (j = n \/ s[j + 1] \in Whitespace)}
        EndOf(i) == CHOOSE j \in ends : j >= i /\ \A k \in ends : k >= i => j <= k
    IN  {SubSeq(s, i, EndOf(i)) : i \in starts}

\* Line 381: if common_words
HasCommonWords(common_words) == common_words # {}

\* Mutant: the division is the integer division.
OverlapScoreFloor(common_words, query_words) ==
    (Cardinality(common_words) \div Cardinality(query_words)) * Scale

\* Line 382: len(common_words) / len(query_words), in fixed point.
OverlapScore(common_words, query_words) ==
    (Cardinality(common_words) * Scale) \div Cardinality(query_words)

\* The loop of lines 375-385 from petition idx on: one result, in dataset
\* order, for every petition that shares a word with the query.
KeywordCollect(pets, query_words, idx) ==
    LET Common(i) == query_words \cap WordSet(pets[i].title)
        hits == {i \in idx..Len(pets) : HasCommonWords(Common(i))}
        Nth(k) == CHOOSE i \in hits : Cardinality({j \in hits : j < i}) = k - 1
    IN  [k \in 1..Cardinality(hits) |->
            Candidate(pets, Nth(k), OverlapScore(Common(Nth(k)), query_words), TRUE)]

\* PetitionSearchEngine.keyword_fallback_search
keyword_fallback_search(pets, query, top_k) ==
    LET found == KeywordCollect(pets, WordSet(query), 1)
        ranked == AddRanking(SortDesc(found), top_k)
        top == SliceTo(ranked, top_k)
    IN  [results |-> [i \in 1..Len(top) |-> top[i].rec],
         picked |-> [i \in 1..Len(top) |-> [idx |-> top[i].idx, sim |-> top[i].sim]],
         stored |-> StoredAfter(pets, ranked)]

KeywordQueries ==
    { <<>>, <<" ">>, <<"A">>, <<"a", " ", "b">>,
      <<"I", "n", " ", "s", "c", "h", "o", "o", "l", "s">> }

\* A caller of the engine calls keyword_fallback_search.
KeywordFallbackSearch ==
    /\ pc = "up"
    /\ search_engine = "engine"
    /\ last = NoCall
    /\ \E query \in KeywordQueries, top_k \in TopKs :
        LET r == keyword_fallback_search(petitions, query, top_k)
        IN  /\ last' = [op |-> "keyword_fallback_search", query |-> query,
                         top_k |-> top_k, results |-> r.results, picked |-> r.picked]
            /\ petitions' = r.stored
    /\ UNCHANGED <<files, pc, search_engine, embeddings, embeddings_loaded, boot>>

\* ------------------------------------------------------------- browsing
\* s[start:stop] for integers of either sign.
PySlice(s, start, stop) ==
    LET n == Len(s)
        lo == IF start < 0 THEN (IF n + start > 0 THEN n + start ELSE 0)
              ELSE (IF start < n THEN start ELSE n)
        hi == IF stop < 0 THEN (IF n + stop > 0 THEN n + stop ELSE 0)
              ELSE (IF stop < n THEN stop ELSE n)
    IN  SubSeq(s, lo + 1, hi)

\* Lines 402-405 and 413-414: the petitions a state filter lets through.
FilterByState(pets, state_filter) ==
    IF TruthyStr(state_filter)
    THEN LET Matches(p) == p.state = Lower(Value(state_filter))
         IN  SelectSeq(pets, Matches)
    ELSE pets

\* PetitionSearchEngine.get_all_petitions
get_all_petitions(pets, offset, limit, state_filter) ==
    PySlice(FilterByState(pets, state_filter), offset, offset + limit)

\* PetitionSearchEngine.get_petition_count
get_petition_count(pets, state_filter) == Len(FilterByState(pets, state_filter))

Offsets == 0 .. MaxTopK
PageLimits == 1 .. MaxTopK

\* A caller of the engine calls get_all_petitions.
GetAllPetitions ==
    /\ pc = "up"
    /\ search_engine = "engine"
    /\ last = NoCall
    /\ \E offset \in Offsets, limit \in PageLimits, state_filter \in StateFilters :
        last' = [op |-> "get_all_petitions", offset |-> offset, limit |-> limit,
                 state_filter |-> state_filter,
                 results |-> get_all_petitions(petitions, offset, limit, state_filter)]
    /\ UNCHANGED <<files, pc, engine, boot>>

\* A caller of the engine calls get_petition_count.
GetPetitionCount ==
    /\ pc = "up"
    /\ search_engine = "engine"
    /\ last = NoCall
    /\ \E state_filter \in StateFilters :
        last' = [op |-> "get_petition_count", state_filter |-> state_filter,
                 count |-> get_petition_count(petitions, state_filter)]
    /\ UNCHANGED <<files, pc, engine, boot>>

\* A caller of the engine calls is_ready.
IsReady ==
    /\ pc = "up"
    /\ search_engine = "engine"
    /\ last = NoCall
    /\ last' = [op |-> "is_ready", ready |-> is_ready]
    /\ UNCHANGED <<files, pc, engine, boot>>

\* ------------------------------------------------------------ statistics
RECURSIVE SumSignatures(_)
\* sum(p['signatures'] for p in self.petitions)
SumSignatures(pets) ==
    IF pets = <<>> THEN 0 ELSE Head(pets).signatures + SumSignatures(Tail(pets))

\* sum(1 for p in self.petitions if p['state'] == state)
CountState(pets, state) == Cardinality({i \in 1..Len(pets) : pets[i].state = state})

\* Mutant: the last petition with the largest count.
MaxBySignaturesLast(pets) ==
    pets[CHOOSE i \in 1..Len(pets) :
            /\ \A j \in 1..Len(pets) : pets[j].signatures <= pets[i].signatures
            /\ \A j \in (i + 1)..Len(pets) : pets[j].signatures < pets[i].signatures]

\* max(self.petitions, key=lambda x: x['signatures']): the first petition
\* no other exceeds.
MaxBySignatures(pets) ==
    pets[CHOOSE i \in 1..Len(pets) :
            /\ \A j \in 1..Len(pets) : pets[j].signatures <= pets[i].signatures
            /\ \A j \in 1..(i - 1) : pets[j].signatures < pets[i].signatures]

\* total_signatures / len(self.petitions): true division, in fixed point.
Average(total, n) == (total * Scale) \div n

\* PetitionSearchEngine.get_statistics.  most_signed is None where the
\* returned dict has no such key.
get_statistics(pets) ==
    IF pets = <<>>
    THEN [total_petitions |-> 0, open_petitions |-> 0, closed_petitions |-> 0,
          total_signatures |-> 0, average_signatures |-> 0, most_signed |-> None]
    ELSE [total_petitions |-> Len(pets),
          open_petitions |-> CountState(pets, "open"),
          closed_petitions |-> CountState(pets, "closed"),
          total_signatures |-> SumSignatures(pets),
          average_signatures |-> Average(SumSignatures(pets), Len(pets)),
          most_signed |-> Some(MaxBySignatures(pets))]

\* A caller of the engine calls get_statistics.
GetStatistics ==
    /\ pc = "up"
    /\ search_engine = "engine"
    /\ last = NoCall
    /\ last' = [op |-> "get_statistics", stats |-> get_statistics(petitions)]
    /\ UNCHANGED <<files, pc, engine, boot>>

\* ------------------------------------------------------------- analytics
\* The analytics operation is described by the specification of the engine
\* (section 4.4); it has no code in search_engine.py or main.py.
\* Mutant: a petition whose score equals the threshold is not related.
IsRelatedStrict(sim, threshold) == sim > threshold

\* A petition is related when its score meets or exceeds the threshold.
IsRelated(sim, threshold) == sim >= threshold

\* n / d rounded to the nearest integer, a tie to the even one.
RoundDiv(n, d) ==
    LET q == n \div d
        r == n % d
    IN  IF 2 * r > d \/ (2 * r = d /\ q % 2 = 1) THEN q + 1 ELSE q

\* round(related_count / total_count * 100, 2) in hundredths of a percent,
\* 0 when total_count is 0.
PercentageRelated(related_count, total_count) ==
    IF total_count = 0 THEN 0 ELSE RoundDiv(related_count * 10000, total_count)

\* analytics(query, threshold): the related petitions are those whose
\* similarity to the query is at least threshold.  related lists their
\* indices; status_breakdown counts open, closed and rejected among them.
analytics(pets, emb, query, threshold, encOk) ==
    IF ~encOk THEN [outcome |-> "EncoderError"]
    ELSE LET query_embedding == Encode(query)
             sims == [i \in 1..Len(emb) |-> CosineSimilarity(query_embedding, emb[i])]
             related == {i \in 1..Len(emb) : IsRelated(sims[i], threshold)}
             InState(st) == Cardinality({i \in related : i <= Len(pets) /\ pets[i].state = st})
         IN  [outcome |-> "ok",
              total_count |-> Len(pets),
              related |-> related,
              related_count |-> Cardinality(related),
              percentage_related |-> PercentageRelated(Cardinality(related), Len(pets)),
              status_breakdown |-> [open |-> InState("open"), closed |-> InState("closed"),
                                    rejected |-> InState("rejected")]]

AnalyticsQueries == { <<"a">>, <<"b", " ", "a">> }
\* No threshold, the cosine of half a right angle, and the cosine 1.0.
Thresholds == { 0, ISqrtIn((Scale * Scale) \div 2, 0, Scale), Scale }

\* A caller of the engine calls analytics.
Analytics ==
    /\ pc = "up"
    /\ search_engine = "engine"
    /\ last = NoCall
    /\ \E query \in AnalyticsQueries, threshold \in Thresholds, encOk \in BOOLEAN :
        last' = [op |-> "analytics", query |-> query, threshold |-> threshold,
                 report |-> analytics(petitions, embeddings, query, threshold, encOk)]
    /\ UNCHANGED <<files, pc, engine, boot>>

\* ------------------------------------------------------------ /api/search
\* models.py: what pydantic accepts as a SearchRequest (otherwise FastAPI
\* answers 422 and the handler does not run).
ValidFilters(filters) ==
    \/ filters = None
    \/ /\ (Value(filters).min_signatures = None \/ Value(Value(filters).min_signatures) >= 0)
       /\ (Value(filters).max_signatures = None \/ Value(Value(filters).max_signatures) >= 0)

ValidRequest(request) ==
    /\ Len(request.query) >= QueryMinLen
    /\ Len(request.query) <= QueryMaxLen
    /\ request.limit >= LimitMin
    /\ request.limit <= LimitMax
    /\ ValidFilters(request.filters)

\* models.py PetitionResult: similarity_score, when present, lies in [0, 1].
ValidResults(results) ==
    \A i \in 1..Len(results) :
        \/ results[i].similarity_score = None
        \/ /\ Value(results[i].similarity_score) >= 0
           /\ Value(results[i].similarity_score) <= Scale

\* What a handler of main.py answers: the HTTP status, the exception it (or
\* FastAPI, for a request pydantic refuses) caught, the body, the calls of the
\* encoder it made and self.petitions after it.
Answer(status, caught, results, encCalls, stored) ==
    [status |-> status, caught |-> caught, results |-> results,
     encCalls |-> encCalls, stored |-> stored]

\* main.py search_petitions.  engine_ is "None" or "engine".  The HTTPException
\* raised at line 101 is an Exception, so the handler of line 134 turns it
\* into status 500; a ValueError, pydantic's ValidationError included, gives 400.
search_petitions(engine_, pets, emb, loaded, request, encOk) ==
    IF ~ValidRequest(request) THEN Answer(422, "RequestValidationError", <<>>, 0, pets)
    ELSE IF engine_ = "None" THEN Answer(500, "HTTPException", <<>>, 0, pets)
    ELSE LET r == search(pets, emb, loaded, request.query, request.limit,
                         IF request.filters # None THEN Value(request.filters).state
                         ELSE None,
                         IF request.filters # None
                         THEN Value(request.filters).min_signatures ELSE None,
                         TRUE, encOk)
         IN  IF r.outcome = "ValueError" THEN Answer(400, r.outcome, <<>>, r.encCalls, pets)
             ELSE IF r.outcome # "ok" THEN Answer(500, r.outcome, <<>>, r.encCalls, pets)
             ELSE IF ~ValidResults(r.results)
                  THEN Answer(400, "ValidationError", <<>>, r.encCalls, r.stored)
             ELSE Answer(200, "none", r.results, r.encCalls, r.stored)

Limits == 0 .. MaxTopK
RequestFilters ==
    { None } \cup
    { Some([state |-> s, min_signatures |-> mn, max_signatures |-> mx]) :
        s \in {None, Some("OPEN")}, mn \in {None, Some(6)},
        mx \in {None, Some(100)} }

\* A client posts a SearchRequest to /api/search.
ApiSearch ==
    /\ pc = "up"
    /\ last = NoCall
    /\ \E query \in Queries, limit \in Limits, filters \in RequestFilters,
          encOk \in BOOLEAN :
        LET request == [query |-> query, limit |-> limit, filters |-> filters]
            a == search_petitions(search_engine, petitions, embeddings,
                                  embeddings_loaded, request, encOk)
        IN  /\ last' = [op |-> "api_search", query |-> query, limit |-> limit,
                         filters |-> filters, status |-> a.status, caught |-> a.caught,
                         results |-> a.results, encCalls |-> a.encCalls]
            /\ petitions' = a.stored
    /\ UNCHANGED <<files, pc, search_engine, embeddings, embeddings_loaded, boot>>

\* main.py list_petitions.  The HTTPException raised at line 162 is caught by
\* the handler of line 182, which answers 500.
list_petitions(engine_, pets, offset, limit, state) ==
    IF engine_ = "None" THEN [status |-> 500, caught |-> "HTTPException", body |-> None]
    ELSE LET page == get_all_petitions(pets, offset, limit, state)
         IN  [status |-> 200, caught |-> "none",
              body |-> Some([petitions |-> page, offset |-> offset, limit |-> limit,
                             total |-> get_petition_count(pets, state),
                             has_more |-> Len(page) = limit])]

\* A client gets /api/petitions.
ApiListPetitions ==
    /\ pc = "up"
    /\ last = NoCall
    /\ \E offset \in Offsets, limit \in PageLimits, state \in StateFilters :
        LET a == list_petitions(search_engine, petitions, offset, limit, state)
        IN  last' = [op |-> "api_petitions", offset |-> offset, limit |-> limit,
                     state |-> state, status |-> a.status, caught |-> a.caught,
                     body |-> a.body]
    /\ UNCHANGED <<files, pc, engine, boot>>

\* main.py get_statistics (the handler of /api/stats).  The HTTPException
\* raised at line 202 is caught by the handler of line 210, which answers 500.
api_stats(engine_, pets) ==
    IF engine_ = "None" THEN [status |-> 500, caught |-> "HTTPException", body |-> None]
    ELSE [status |-> 200, caught |-> "none", body |-> Some(get_statistics(pets))]

\* A client gets /api/stats.
ApiStats ==
    /\ pc = "up"
    /\ last = NoCall
    /\ LET a == api_stats(search_engine, petitions)
       IN  last' = [op |-> "api_stats", status |-> a.status, caught |-> a.caught,
                    body |-> a.body]
    /\ UNCHANGED <<files, pc, engine, boot>>

\* The caller has consumed the result of its call; the next call can be made.
Return ==
    /\ pc = "up"
    /\ last # NoCall
    /\ last' = NoCall
    /\ UNCHANGED <<files, pc, engine, boot>>

\* Initialisation over sources in header form, search and /api/search.
Next ==
    \/ EnvWriteSource
    \/ EnvDamageCache
    \/ EnvLegacyCache
    \/ StartupModelFails
    \/ Startup
    \/ Shutdown
    \/ Search
    \/ ApiSearch
    \/ Return

Spec == Init /\ [][Next]_vars

\* Initialisation over sources of either form and the operations that read
\* the petitions without the encoder.
NextOps ==
    \/ EnvWriteSource
    \/ EnvWriteHeaderless
    \/ EnvDamageCache
    \/ EnvLegacyCache
    \/ StartupModelFails
    \/ Startup
    \/ Shutdown
    \/ KeywordFallbackSearch
    \/ GetAllPetitions
    \/ GetPetitionCount
    \/ IsReady
    \/ GetStatistics
    \/ ApiListPetitions
    \/ ApiStats
    \/ Return

SpecOps == Init /\ [][NextOps]_vars

\* Initialisation over sources in header form, every operation of the engine
\* and every endpoint.
NextAll ==
    \/ EnvWriteSource
    \/ EnvDamageCache
    \/ EnvLegacyCache
    \/ StartupModelFails
    \/ Startup
    \/ Shutdown
    \/ Search
    \/ KeywordFallbackSearch
    \/ GetAllPetitions
    \/ GetPetitionCount
    \/ IsReady
    \/ GetStatistics
    \/ ApiSearch
    \/ ApiListPetitions
    \/ ApiStats
    \/ Return

SpecAll == Init /\ [][NextAll]_vars

\* Initialisation over sources of either form and the analytics operation.
NextAnalytics ==
    \/ EnvWriteSource
    \/ EnvWriteHeaderless
    \/ EnvDamageCache
    \/ EnvLegacyCache
    \/ StartupModelFails
    \/ Startup
    \/ Shutdown
    \/ Analytics
    \/ Return

SpecAnalytics == Init /\ [][NextAnalytics]_vars

\* ----------------------------------------------------------------- claims
Min(a, b) == IF a < b THEN a ELSE b
Returned == last.op = "search" /\ last.outcome = "ok"
Answered == last.op = "api_search" /\ last.status = 200
\* The text is empty or holds nothing but whitespace.
Blank(text) == \A i \in 1..Len(text) : text[i] \in Whitespace
Built == boot.done /\ search_engine = "engine"
\* Row i of the matrix is the encoding of petition i's title.
RowsBelong ==
    \A i \in 1..Len(embeddings) :
        i <= Len(petitions) /\ embeddings[i] = Encode(petitions[i].title)

\* C1 as stated: whenever is_ready() is true the embedding matrix has as many
\* rows as there are petitions and row i belongs to petition i.
C1_AlignedWhenReady ==
    (search_engine = "engine" /\ is_ready) =>
        (Len(embeddings) = Len(petitions) /\ RowsBelong)

\* C1 as amended: whenever is_ready() is true the embedding matrix has as many
\* rows as there are petitions; row i is the encoding of petition i's title
\* when the matrix was generated by this initialisation or restored from a
\* cache whose petition snapshot equals the petitions just loaded.
C1_RowCountWhenReady ==
    (Built /\ is_ready) =>
        /\ Len(embeddings) = Len(petitions)
        /\ (boot.calls = 1 \/ boot.sameSnapshot) => RowsBelong

\* A ready engine whose matrix was restored from the cache.
C1_Witness ==
    /\ Built /\ is_ready
    /\ boot.cacheKind = "record" /\ boot.calls = 0
    /\ embeddings = boot.cached

\* C2: the sequence search returns is ordered by descending similarity, and
\* results of equal similarity keep their dataset order.
C2_OrderedBySimilarity ==
    Returned =>
        \A i, j \in 1..Len(last.picked) :
            i < j =>
                \/ last.picked[i].sim > last.picked[j].sim
                \/ /\ last.picked[i].sim = last.picked[j].sim
                   /\ last.picked[i].idx < last.picked[j].idx

\* C3: the rank fields of the results a search returns are 1, 2, ..., length
\* in returned order, whatever the results' positions in the dataset.
C3_RanksAreOneToLength ==
    (Returned \/ Answered) =>
        \A i \in 1..Len(last.results) : last.results[i].rank = Some(i)

\* A search returned at least two results and the first is not the first
\* petition of the dataset.
C3_Witness ==
    /\ Returned
    /\ Len(last.results) >= 2
    /\ last.picked[1].idx > last.picked[2].idx
    /\ last.results[2].rank = Some(2)

\* Petitions of the engine that the filters of the last search keep.
Kept ==
    {i \in 1..Len(petitions) :
        PassesFilters(petitions[i], last.state_filter, last.min_signatures)}

\* C4 as stated: for any integer top_k = k the returned sequence has length
\* at most k.
C4_AtMostTopK == Returned => Len(last.results) <= last.top_k

\* C4 as amended: for any integer top_k = k >= 0 the returned sequence has
\* length min(k, number of petitions the filters keep), hence at most k; the
\* endpoint, whose limit is at least 1, answers with at most limit results.
C4_LengthIsMinForNonNegativeTopK ==
    /\ (Returned /\ last.top_k >= 0) =>
           Len(last.results) = Min(last.top_k, Cardinality(Kept))
    /\ Answered => Len(last.results) <= last.limit

\* A search cut its results to top_k = 1 although the filters keep more.
C4_Witness ==
    /\ Returned
    /\ last.top_k = 1
    /\ Cardinality(Kept) >= 2
    /\ Len(last.results) = 1

\* C5: with a state filter search returns only petitions whose state equals
\* the filter case-insensitively, with min_signatures = N it returns no
\* petition with fewer than N signatures, and the petitions that pass both
\* are the ones the top_k cut is taken from.
C5_FiltersRespected ==
    Returned =>
        /\ \A i \in 1..Len(last.results) :
            /\ last.state_filter # None =>
                   last.results[i].state = Lower(Value(last.state_filter))
            /\ last.min_signatures # None =>
                   last.results[i].signatures >= Value(last.min_signatures)
        /\ last.top_k >= 0 =>
               Len(last.results) =
                   Min(last.top_k,
                       Cardinality({i \in 1..Len(petitions) :
                           /\ last.state_filter # None =>
                                  petitions[i].state = Lower(Value(last.state_filter))
                           /\ last.min_signatures # None =>
                                  petitions[i].signatures >= Value(last.min_signatures)}))

\* C6: when the request carries max_signatures = M, no result of the
\* /api/search answer has more than M signatures.
C6_MaxSignaturesRespected ==
    (Answered /\ last.filters # None /\ Value(last.filters).max_signatures # None) =>
        \A i \in 1..Len(last.results) :
            last.results[i].signatures <= Value(Value(last.filters).max_signatures)

\* C7: a search with an empty or whitespace-only query fails with ValueError
\* in every engine state, without a call of the encoder and without a change
\* of the engine or of the files.
C7_BlankQueryRejected ==
    [][(last' # last /\ last'.op = "search" /\ Blank(last'.query)) =>
          /\ last'.outcome = "ValueError"
          /\ last'.encCalls = 0
          /\ UNCHANGED <<engine, files>>]_vars

\* A whitespace-only query was rejected by an engine that is not ready.
C7_Witness ==
    /\ last.op = "search"
    /\ last.query = <<" ">>
    /\ last.outcome = "ValueError"
    /\ last.encCalls = 0
    /\ ~is_ready

\* C8: whenever is_ready() is false, a search with a non-empty query fails
\* with the not-ready failure (RuntimeError) and the encoder is not called.
C8_NotReadyRejected ==
    (last.op = "search" /\ ~Blank(last.query) /\ ~is_ready) =>
        (last.outcome = "RuntimeError" /\ last.encCalls = 0)

C10_TenSamplePetitions ==
    (Built /\ boot.csvKind = "absent" /\ csvFile.kind = "csv") =>
        /\ Len(petitions) = 10
        /\ \A i \in 1..Len(petitions) : petitions[i].signatures > 0

\* The statistics the last call returned, from the engine or from /api/stats.
GotStatistics ==
    \/ last.op = "get_statistics"
    \/ last.op = "api_stats" /\ last.status = 200
Stats == IF last.op = "get_statistics" THEN last.stats ELSE Value(last.body)
RECURSIVE SignaturesUpTo(_)
\* The signature counts of the first n petitions of the engine, added up.
SignaturesUpTo(n) ==
    IF n = 0 THEN 0 ELSE SignaturesUpTo(n - 1) + petitions[n].signatures
\* Petition i has the largest signature count and is the first that has it.
FirstLargest(i) ==
    /\ \A j \in 1..Len(petitions) : petitions[j].signatures <= petitions[i].signatures
    /\ \A j \in 1..(i - 1) : petitions[j].signatures # petitions[i].signatures

\* C11: get_statistics returns open_petitions + closed_petitions <=
\* total_petitions, total_signatures equal to the sum of all signature counts,
\* average_signatures equal to total_signatures / total_petitions (to the
\* resolution 1/Scale), average_signatures = 0 and no error when there are no
\* petitions, and as most_signed the first petition in dataset order among
\* those with the largest signature count.
C11_Statistics ==
    GotStatistics =>
        /\ Stats.total_petitions = Len(petitions)
        /\ Stats.open_petitions + Stats.closed_petitions <= Stats.total_petitions
        /\ Stats.total_signatures = SignaturesUpTo(Len(petitions))
        /\ petitions = <<>> =>
               (Stats.average_signatures = 0 /\ Stats.most_signed = None)
        /\ petitions # <<>> =>
               /\ Stats.average_signatures * Stats.total_petitions
                      <= Stats.total_signatures * Scale
               /\ Stats.total_signatures * Scale
                      < (Stats.average_signatures + 1) * Stats.total_petitions
               /\ \E i \in 1..Len(petitions) :
                      FirstLargest(i) /\ Stats.most_signed = Some(petitions[i])

\* Statistics over a dataset in which two different petitions share the
\* largest signature count and some petition is neither open nor closed.
C11_Witness ==
    /\ last.op = "get_statistics"
    /\ \E i, j \in 1..Len(petitions) :
           /\ i < j /\ FirstLargest(i)
           /\ petitions[j].signatures = petitions[i].signatures
           /\ petitions[j] # petitions[i]
           /\ last.stats.most_signed = Some(petitions[i])
    /\ last.stats.open_petitions + last.stats.closed_petitions
           < last.stats.total_petitions

\* The request of the last /api/search call.
LastRequest == [query |-> last.query, limit |-> last.limit, filters |-> last.filters]

\* C12: if the encoder fails to initialise at startup the engine stays
\* unavailable for the whole process lifetime, and every endpoint (search,
\* list petitions, statistics) answers a request it accepts with status 503.
C12_UnavailableIs503 ==
    (boot.done /\ ~boot.modelOk) =>
        /\ search_engine = "None"
        /\ (last.op = "api_search" /\ ValidRequest(LastRequest)) => last.status = 503
        /\ last.op \in {"api_petitions", "api_stats"} => last.status = 503

\* The signal each of the three failures gives over the sample dataset: the
\* exception search raises, and the status /api/search answers.
SampleEmbeddings == EncodeBatch(Titles(sample_petitions))
EngineSignal(loaded, query, encOk) ==
    search(sample_petitions, SampleEmbeddings, loaded, query, 1, None, None, TRUE,
           encOk).outcome
ApiSignal(engine_, query, encOk) ==
    search_petitions(engine_, sample_petitions, SampleEmbeddings, TRUE,
                     [query |-> query, limit |-> 1, filters |-> None], encOk).status
EmptyQuerySignals == [engine |-> EngineSignal(TRUE, <<" ">>, TRUE),
                      api |-> ApiSignal("engine", <<" ">>, TRUE)]
NotReadySignals == [engine |-> EngineSignal(FALSE, <<"a">>, TRUE),
                    api |-> ApiSignal("None", <<"a">>, TRUE)]
InternalSignals == [engine |-> EngineSignal(TRUE, <<"a">>, FALSE),
                    api |-> ApiSignal("engine", <<"a">>, FALSE)]

\* C13: the signals a caller receives for an empty-query validation failure,
\* for a not-ready failure and for an internal failure are pairwise
\* different, at the engine boundary (the exception) and at /api/search (the
\* status): the signal of a failed call is never the signal of a failure of
\* another of the three kinds.
C13_SignalsPairwiseDifferent ==
    /\ (last.op = "search" /\ Blank(last.query)) =>
           last.outcome \notin {NotReadySignals.engine, InternalSignals.engine}
    /\ (last.op = "search" /\ ~Blank(last.query) /\ embeddings_loaded
            /\ last.outcome # "ok") =>
           last.outcome \notin {EmptyQuerySignals.engine, NotReadySignals.engine}
    /\ (last.op = "api_search" /\ last.caught = "ValueError" /\ Blank(last.query)) =>
           last.status \notin {NotReadySignals.api, InternalSignals.api}
    /\ (last.op = "api_search" /\ last.caught = "HTTPException") =>
           last.status \notin {EmptyQuerySignals.api, InternalSignals.api}
    /\ (last.op = "api_search" /\ last.caught = "EncoderError") =>
           last.status \notin {EmptyQuerySignals.api, NotReadySignals.api}

\* C14: when the cache file holds a bare embedding matrix (the legacy form,
\* without a petition snapshot), initialisation adopts that matrix whatever
\* its row count, marks the store ready and does not call the encoder.
C14_LegacyCacheAdopted ==
    (boot.done /\ boot.modelOk /\ boot.cacheKind = "legacy") =>
        /\ boot.calls = 0
        /\ search_engine = "engine"
        /\ embeddings_loaded
        /\ embeddings = boot.cached

\* The similarity of the last analytics query to row i of the matrix.
ScoreOfRow(i) == CosineSimilarity(Encode(last.query), embeddings[i])

\* C15: analytics(query, threshold) treats as related exactly the petitions
\* whose similarity to the query is >= threshold and reports
\* percentage_related = round(related_count / total_count * 100, 2), which is
\* 0 when total_count is 0.
C15_AnalyticsPercentage ==
    (last.op = "analytics" /\ last.report.outcome = "ok") =>
        LET r == last.report
        IN  /\ r.related = {i \in 1..Len(embeddings) : ScoreOfRow(i) >= last.threshold}
            /\ r.related_count = Cardinality(r.related)
            /\ r.total_count = Len(petitions)
            /\ r.total_count = 0 => r.percentage_related = 0
            /\ r.total_count > 0 =>
                   /\ 2 * (r.percentage_related * r.total_count - r.related_count * 10000)
                          <= r.total_count
                   /\ 2 * (r.related_count * 10000 - r.percentage_related * r.total_count)
                          <= r.total_count

\* An analytics report in which a petition scores exactly the threshold and
\* the percentage is a rounded one (two of three petitions, 66.67).
C15_Witness ==
    /\ last.op = "analytics" /\ last.report.outcome = "ok"
    /\ \E i \in last.report.related : ScoreOfRow(i) = last.threshold
    /\ last.report.total_count = 3
    /\ last.report.related_count = 2
    /\ last.report.percentage_related = 6667

\* C16: every petition held by the engine after loading, whatever the source
\* content and whichever parsing path produced it, has signatures >= 0.
C16_SignaturesNonNegative ==
    Built => \A i \in 1..Len(petitions) : petitions[i].signatures >= 0

PetitionFields == {"title", "url", "state", "signatures"}

\* C17: after initialisation no call of search, keyword_fallback_search,
\* get_all_petitions, get_petition_count, get_statistics or is_ready, and no
\* request to an endpoint, changes the petition sequence, a stored petition's
\* fields, the embedding matrix or the readiness flag.
C17_ReadOnlyAfterInit ==
    [][(pc = "up" /\ pc' = "up") =>
          UNCHANGED <<petitions, embeddings, embeddings_loaded, search_engine>>]_vars

\* A keyword search returned a ranked, scored copy of a stored petition that
\* itself has neither a rank nor a score.
C17_Witness ==
    /\ last.op = "keyword_fallback_search"
    /\ Len(last.results) >= 1
    /\ last.results[1].rank = Some(1)
    /\ last.results[1].similarity_score # None
    /\ DOMAIN petitions[last.picked[1].idx] = PetitionFields
    /\ last.results[1].title = petitions[last.picked[1].idx].title

\* The text is a decimal numeral with an optional minus sign.
IsIntegerText(t) ==
    LET IsDigits(u) == u # <<>> /\ \A i \in 1..Len(u) : \E d \in 1..10 : u[i] = Digits[d]
    IN  IsDigits(t) \/ (t # <<>> /\ t[1] = "-" /\ IsDigits(Tail(t)))
\* The text without its thousands separators.
WithoutCommas(t) == SelectSeq(t, LAMBDA c : c # ",")
\* The source file exists and int() fails on one of its rows: a signature
\* field of a header-form row that is no numeral once the separators are
\* stripped, or a signature field of a header-less line (which has a title
\* word, so it is parsed) that is no numeral as it stands.
SourceFailsToParse(f) ==
    \/ /\ f.kind = "csv"
       /\ \E i \in 1..Len(f.rows) :
              /\ f.rows[i].signatures # <<>>
              /\ ~IsIntegerText(WithoutCommas(f.rows[i].signatures))
    \/ /\ f.kind = "lines"
       /\ \E i \in 1..Len(f.rows) :
              /\ f.rows[i].signatures # None
              /\ ~Blank(f.rows[i].title)
              /\ ~IsIntegerText(Value(f.rows[i].signatures))

\* C18: if the source file exists but a row's signature value cannot be
\* parsed, an initialisation whose model loads keeps none of the rows read so
\* far and continues to embedding preparation: the encoder is called or the
\* cache adopted, and the engine it builds holds exactly the ten sample
\* petitions.
C18_ParseFailureFallsBackToSamples ==
    [][(pc = "down" /\ pc' = "up" /\ boot'.modelOk /\ SourceFailsToParse(csvFile)) =>
          /\ boot'.calls = 1 \/ (boot'.countEqual /\ embeddings' = boot'.cached)
          /\ search_engine' = "engine" =>
                 (petitions' = sample_petitions /\ embeddings_loaded')]_vars

\* The engine holds the ten samples although the source file, which could
\* not be rewritten, starts with a row that parses.
C18_Witness ==
    /\ Built
    /\ csvFile \in {CsvFile(<<RowA, RowBad>>), LinesFile(<<LineA, LineBad>>)}
    /\ SourceFailsToParse(csvFile)
    /\ petitions = sample_petitions
    /\ embeddings_loaded

\* C19: every petition title held by the engine after loading is normalised:
\* it contains only allow-listed characters (word characters, whitespace and
\* . , ! ? -), has no run of more than one whitespace character and is at
\* most 500 characters plus the ellipsis marker long.
C19_TitlesNormalised ==
    Built =>
        \A i \in 1..Len(petitions) :
            LET t == petitions[i].title
            IN  /\ \A k \in 1..Len(t) : t[k] \in AllowedChars
                /\ \A k \in 1..(Len(t) - 1) :
                       ~(t[k] \in Whitespace /\ t[k + 1] \in Whitespace)
                /\ Len(t) <= TitleMaxLen + 3

\* The lower-cased words the last keyword query shares with petition i's title.
SharedWords(i) == WordSet(last.query) \cap WordSet(petitions[i].title)
\* |query words /\ title words| / |query words| for petition i, in fixed point.
SharedScore(i) ==
    (Cardinality(SharedWords(i)) * Scale) \div Cardinality(WordSet(last.query))
\* The petitions that share a word with the last keyword query.
Sharing == {i \in 1..Len(petitions) : SharedWords(i) # {}}
\* Petition i comes before petition j in the order of the keyword results.
KeywordBefore(i, j) ==
    \/ SharedScore(i) > SharedScore(j)
    \/ SharedScore(i) = SharedScore(j) /\ i < j

\* C20: keyword_fallback_search returns, for any query (an empty or
\* whitespace-only one gives an empty list without error), only petitions
\* sharing at least one lower-cased word with the query, each scored
\* |query words /\ title words| / |query words| (greater than 0, at most 1),
\* ordered by descending score with ties in dataset order, cut to top_k (the
\* best min(top_k, number sharing) for top_k >= 0) and ranked 1..length.
C20_KeywordFallback ==
    last.op = "keyword_fallback_search" =>
        LET n == Len(last.results)
            Idx(k) == last.picked[k].idx
        IN  /\ Blank(last.query) => n = 0
            /\ \A k \in 1..n :
                   /\ Idx(k) \in Sharing
                   /\ last.results[k].similarity_score = Some(SharedScore(Idx(k)))
                   /\ SharedScore(Idx(k)) > 0 /\ SharedScore(Idx(k)) <= Scale
                   /\ last.results[k].rank = Some(k)
                   /\ last.results[k].title = petitions[Idx(k)].title
                   /\ last.results[k].url = petitions[Idx(k)].url
            /\ \A k, l \in 1..n : k < l => KeywordBefore(Idx(k), Idx(l))
            /\ \A i \in Sharing \ {Idx(k) : k \in 1..n} :
                   \A k \in 1..n : KeywordBefore(Idx(k), i)
            /\ last.top_k >= 0 => n = Min(last.top_k, Cardinality(Sharing))

\* A keyword search whose first result is not the first petition that shares
\* a word: two petitions tie on a higher score and keep their dataset order,
\* the cut leaves the lower-scored one out, and a petition sharing no word is
\* skipped.
C20_Witness ==
    /\ last.op = "keyword_fallback_search"
    /\ Len(last.results) = 2
    /\ \E i \in Sharing : i < last.picked[1].idx /\ SharedScore(i) < last.picked[1].sim
    /\ Cardinality(Sharing) > 2
    /\ Cardinality(Sharing) < Len(petitions)
    /\ last.picked[1].sim = last.picked[2].sim
    /\ last.picked[1].idx < last.picked[2].idx

\* ------------------------------------------------------------------- C21
\* A request to /api/petitions has been answered with a page.
ListedPetitions == last.op = "api_petitions" /\ last.status = 200
\* The body of that answer.
Listing == Value(last.body)
\* The petitions the state filter of the request lets through, in dataset
\* order: all of them when no state is given, else those whose state is the
\* lower-cased state of the request.
MatchingPetitions ==
    IF last.state = None \/ Value(last.state) = "" THEN petitions
    ELSE SelectSeq(petitions, LAMBDA p : p.state = Lower(Value(last.state)))

\* C21: for every offset >= 0, limit >= 1 and state filter, the answer of
\* list_petitions has has_more = true exactly when a matching petition lies
\* at an index >= offset + limit of the filtered sequence (counted from 0),
\* and its total is the length of the filtered sequence.
C21_HasMoreExact ==
    (ListedPetitions /\ last.offset >= 0 /\ last.limit >= 1) =>
        /\ Listing.has_more = (Len(MatchingPetitions) > last.offset + last.limit)
        /\ Listing.total = Len(MatchingPetitions)
====
